---------------------------- MODULE Spec2Model ----------------------------
(***************************************************************************)
(* Round-robin load balancer with health-aware selection.                  *)
(*                                                                         *)
(*   balancer.LoadBalancer   New, SelectBackend, GetHealthyBackends         *)
(*   backend.Backend         NewBackend, IsAlive, SetAlive                 *)
(*   healthcheck.HealthChecker (join-barrier version)  Start, Stop,        *)
(*                           healthCheckLoop, checkAllBackends,            *)
(*                           checkBackend                                  *)
(*                                                                         *)
(* Pool positions are 0..N-1 as in the Go slice.  Every shared-memory      *)
(* operation (atomic Add on the cursor, IsAlive, SetAlive, context         *)
(* cancel, channel receive) is one step; purely local computation is       *)
(* folded into the step that precedes it.  SpecMu refines IsAlive and      *)
(* SetAlive to the steps of Backend.mu, the sync.RWMutex that guards the   *)
(* flag, and SpecSelMu is SelectBackend with its IsAlive at that level.    *)
(* SpecWrap is the selector with its cursor about to wrap around.          *)
(* SpecFF is the health checker of internal/healthcheck, whose             *)
(* checkAllBackends does not join its probes; SpecLive is the join-barrier *)
(* health checker started once and never stopped, with fairness; SpecStop  *)
(* is the same health checker with Start and Stop in either order and a    *)
(* fair choice at the select.                                              *)
(***************************************************************************)
EXTENDS Integers, Sequences, FiniteSets, TLC

\* ------------------------------------------------------------- bounds
\* Largest pool handed to New / NewHealthChecker.
MaxN == 3
\* SelectBackend calls started in one behaviour.
MaxCalls == 4
\* The values of the cursor from which a balancer that has been in use
\* for long goes on: 2^64 - 3, 2^64 - 2 and 2^64 - 1, written -3, -2, -1
\* (see the cursor below).
WrapStarts == {-3, -2, -1}

\* The goroutines that call SelectBackend.
Callers == {1, 2}

\* The tasks that call IsAlive and SetAlive in the lock-level model.
MuTasks == {1, 2, 3}

\* The sizes of the pool handed to NewHealthChecker.
HcPoolSizes == 0 .. 2
\* Probe rounds one monitoring loop begins in one behaviour.
MaxRounds == 2
\* The monitoring loops: Start spawns one goroutine per call.
Loops == {1, 2}

\* ---------------------------------------------------------- constants
\* Width of the cursor: current atomic.Uint64.
CursorBits == 64
Nil == -1
ErrNil == "nil"
ErrNoBackends == "at least one backend is required"
ErrOffline == "all backends are offline"
NoRet == [backend |-> Nil, err |-> "pending"]

VARIABLES
    alive,      \* alive[b]: Backend.alive of the backend at pool position b
    lbOk,       \* New returned a LoadBalancer (not nil)
    lbErr,      \* the error New returned
    current,    \* LoadBalancer.current
    pc,         \* pc[c]: where caller c is inside SelectBackend
    attempts,   \* attempts[c]: the local variable attempts
    idx,        \* idx[c]: the local variable idx
    ret,        \* ret[c]: what c's last SelectBackend call returned
    \* ---- history variables (no effect on the program's state)
    calls,      \* number of SelectBackend calls started
    sawDead,    \* sawDead[c]: backends dead at some moment of c's running call
    changed,    \* changed[c]: a flag changed value during c's running call
    seq,        \* no two SelectBackend calls have overlapped so far
    steady,     \* every flag was true at every moment since the first call
    selected,   \* selected[b]: calls that returned b (tallied while steady)
    watch,      \* recovery watch, see SetAlive
    lastWrite,  \* lastWrite[b]: value of the last completed SetAlive on b
    written,    \* some SetAlive has completed, on any backend
    issued,     \* number of selection attempts so far, written as the
                \* cursor is
    adds,       \* adds[c]: how many times c's call in progress has advanced
                \* the cursor
    checked,    \* number of liveness checks SelectBackend calls have made so
                \* far, written as the cursor is
    lastSel,    \* the backend the previous call returned, see Return
    \* ---- health checker
    interval,   \* hc.interval, in seconds
    timeout,    \* hc.client.Timeout, in seconds
    cancelled,  \* hc.ctx is done (hc.cancel has been called)
    loopPc,     \* loopPc[l]: where monitoring loop l is
    round,      \* round[l]: calls of checkAllBackends loop l has begun
    spawnIdx,   \* spawnIdx[l]: position of the range loop in checkAllBackends
    wg,         \* wg[l]: counter of the WaitGroup of l's checkAllBackends
    tickerOn,   \* tickerOn[l]: l's ticker exists and is not stopped
    tick,       \* tick[l]: l's ticker channel (capacity 1) holds a tick
    probes,     \* the checkBackend goroutines in flight
    endpoint,   \* endpoint[b]: the answers b's /health can give from now on
    \* ---- GetHealthyBackends (one calling goroutine)
    ghPc,       \* where the call is: "idle", "scan", or "done" (returned)
    ghIdx,      \* position of the range loop over lb.backends
    healthy,    \* the local slice healthy
    ghRet,      \* what the last call returned
    ghChanged,  \* history: a flag changed value during the running call
    ghSnaps,    \* history: see SetAlive and GhScan
    \* ---- Backend.mu (sync.RWMutex) and the tasks inside IsAlive/SetAlive
    muWriter,   \* muWriter[b]: the task that holds b.mu for writing, or 0
    muReaders,  \* muReaders[b]: the tasks that hold b.mu for reading
    muPc,       \* muPc[t]: where task t is
    muArg,      \* muArg[t]: the backend and the value of t's call
    muRet       \* muRet[t]: what t's last IsAlive returned

selVars == <<lbOk, lbErr, current, pc, attempts, idx, ret>>
histVars == <<calls, sawDead, changed, seq, steady, selected, watch,
              lastWrite, written, issued, checked, adds, lastSel>>
\* The fields NewHealthChecker sets once and for all.
hcCfg == <<interval, timeout>>
hcVars == <<hcCfg, cancelled, loopPc, round, spawnIdx, wg, tickerOn, tick,
            probes, endpoint>>
ghVars == <<ghPc, ghIdx, healthy, ghRet, ghChanged, ghSnaps>>
muVars == <<muWriter, muReaders, muPc, muArg, muRet>>
vars == <<alive, selVars, histVars, hcVars, ghVars, muVars>>
\* Everything but the health checker's variables.
notHc == <<alive, selVars, histVars, ghVars, muVars>>

Pool == DOMAIN alive
totalBackends == Cardinality(Pool)

InCall(c) == pc[c] # "idle"
\* SelectBackend calls that have returned.
done == calls - Cardinality({c \in Callers : InCall(c)})
NoWatch == [b |-> Nil, misses |-> 0]

\* ------------------------------------------------------------ backend
\* Mutation of NewBackend: a backend is born alive.
NewBackendAlive == [alive |-> TRUE]

\* backend.NewBackend: the alive field starts false.
NewBackend == [alive |-> FALSE]

\* Mutation of IsAlive: a liveness test that does not read the flag.
IsAliveBlind(b) == TRUE

\* Backend.IsAlive
IsAlive(b) == alive[b]

\* ----------------------------------------------------------- balancer
\* Mutation of New: a slice of one backend is refused too.
NewRefusesOne(len) ==
    IF len <= 1
    THEN [ok |-> FALSE, err |-> ErrNoBackends]
    ELSE [ok |-> TRUE, err |-> ErrNil]

\* balancer.New: an empty slice is refused.
New(len) ==
    IF len = 0
    THEN [ok |-> FALSE, err |-> ErrNoBackends]
    ELSE [ok |-> TRUE, err |-> ErrNil]

\* Mutation of AtomicAdd1: the cursor is kept below the largest pool size.
AddReset(cur) == (cur + 1) % MaxN

\* Mutation of AtomicAdd1: the increment is lost.
AddLost(cur) == cur

\* The cursor is a uint64.  A value v below 2^63 is written v, and a value
\* 2^64 - j of the upper half is written -j, so that the largest value,
\* 2^64 - 1, is -1 and the value that follows it is 0.  The model stays
\* within a few steps of 0 on either side.

\* 2^k mod m, computed without forming 2^k.
RECURSIVE TwoToTheMod(_, _)
TwoToTheMod(k, m) == IF k = 0 THEN 1 % m ELSE (2 * TwoToTheMod(k - 1, m)) % m

\* v mod m for the uint64 that is written v.
CursorModulo(v, m) ==
    IF v >= 0 THEN v % m
    ELSE (TwoToTheMod(CursorBits, m) + m - ((-v) % m)) % m

\* atomic.Uint64.Add(1): the new value; after the largest value, 0.
AtomicAdd1(cur) == IF cur = -1 THEN 0 ELSE cur + 1

\* Mutation of IndexOf: the value after the increment is used as it is.
IndexOfNew(added, total) == added % total

\* idx := lb.current.Add(1) - 1; idx = idx % uint64(totalBackends)
\* (the subtraction is unsigned: 0 - 1 is the largest value, 2^64 - 1).
IndexOf(added, total) == CursorModulo(added - 1, total)

\* Mutation of MoreAttempts: one more pass through the loop.
OneMoreAttempt(att, total) == att <= total

\* Mutation of MoreAttempts: the loop gives up one attempt early.
GivesUpEarly(att, total) == att < total - 1

\* The loop condition of SelectBackend: attempts < totalBackends.
MoreAttempts(att, total) == att < total

\* A call of no backend and no value.
NoArg == [b |-> 0, v |-> FALSE]

\* Every Backend.mu is a zero sync.RWMutex: unlocked.
MuInit(n) ==
    /\ muWriter = [b \in 0 .. n - 1 |-> 0]
    /\ muReaders = [b \in 0 .. n - 1 |-> {}]
    /\ muPc = [t \in MuTasks |-> "idle"]
    /\ muArg = [t \in MuTasks |-> NoArg]
    /\ muRet = [t \in MuTasks |-> FALSE]

\* No call of GetHealthyBackends has been made.
GhInit ==
    /\ ghPc = "idle"
    /\ ghIdx = 0
    /\ healthy = <<>>
    /\ ghRet = <<>>
    /\ ghChanged = FALSE
    /\ ghSnaps = {}

\* The backends the running call of GetHealthyBackends has collected.
Collected == {healthy[i] : i \in DOMAIN healthy}

\* The set S of backends is, on the positions the running call has read,
\* what the call read there.
AgreesWithScan(S) == \A x \in 0 .. ghIdx - 1 : (x \in S) <=> (x \in Collected)

\* What a probe's client.Get can come back with: a transport error or
\* timeout, or a response with status 200, another 2xx status, or 500.
Outcomes == {"err", "200", "204", "500"}

\* client := &http.Client{Timeout: 2 * time.Second, ...}
ClientTimeout == 2

\* The interval the program of cmd/main.go hands to NewHealthChecker.
MainInterval == 5

\* The intervals handed to NewHealthChecker: one second, the 2 seconds of
\* cmd/demo_healthchecker.go, the 5 seconds of cmd/main.go.  (An interval of
\* zero or less makes time.NewTicker panic when the loop starts.)
Intervals == {1, 2, MainInterval}

\* healthcheck.NewHealthChecker(backends, d): the interval as given, the
\* client with its fixed Timeout, a fresh context, no loop running.  Nothing
\* is known of the servers behind the backends.
HcInit(n, d) ==
    /\ interval = d
    /\ timeout = ClientTimeout
    /\ cancelled = FALSE
    /\ loopPc = [l \in Loops |-> "none"]
    /\ round = [l \in Loops |-> 0]
    /\ spawnIdx = [l \in Loops |-> 0]
    /\ wg = [l \in Loops |-> 0]
    /\ tickerOn = [l \in Loops |-> FALSE]
    /\ tick = [l \in Loops |-> FALSE]
    /\ probes = {}
    /\ endpoint = [b \in 0 .. n - 1 |-> Outcomes]

\* The backends are created by NewBackend and handed to New and to
\* NewHealthChecker(backends, d); k is the value of the cursor, 0 after New
\* and k after as many selection attempts as make the cursor k.
InitAt(n, d, k) ==
        /\ alive = [b \in 0 .. n - 1 |-> NewBackend.alive]
        /\ lbOk = New(n).ok
        /\ lbErr = New(n).err
        /\ current = k
        /\ pc = [c \in Callers |-> "idle"]
        /\ attempts = [c \in Callers |-> 0]
        /\ idx = [c \in Callers |-> 0]
        /\ ret = [c \in Callers |-> NoRet]
        /\ calls = 0
        /\ sawDead = [c \in Callers |-> {}]
        /\ changed = [c \in Callers |-> FALSE]
        /\ seq = TRUE
        /\ steady = TRUE
        /\ selected = [b \in 0 .. n - 1 |-> 0]
        /\ watch = NoWatch
        /\ lastWrite = [b \in 0 .. n - 1 |-> FALSE]
        /\ written = FALSE
        /\ issued = k
        /\ checked = k
        /\ adds = [c \in Callers |-> 0]
        /\ lastSel = Nil
        /\ HcInit(n, d)
        /\ GhInit
        /\ MuInit(n)

\* The same with a fresh balancer: New leaves the cursor at 0.
InitWith(n, d) == InitAt(n, d, 0)

InitPool(n) == InitWith(n, MainInterval)

Init == \E n \in 0 .. MaxN : InitPool(n)

\* Mutation of Stored: a dead mark is kept against a later write.
StoredSticky(old, v) == old /\ v

\* b.alive = alive: the flag takes the written value, whatever it held.
Stored(old, v) == v

\* Backend.SetAlive(v) on the backend at position b, by any task (a test,
\* the dispatch layer, a probe).
\* watch: set when a dead backend is revived while no call is in progress;
\* it then counts the calls that return without selecting that backend, and
\* is dropped by any other change of a flag and by overlapping calls.
SetAlive(b, v) ==
    /\ alive' = [alive EXCEPT ![b] = Stored(alive[b], v)]
    /\ lastWrite' = [lastWrite EXCEPT ![b] = v]
    /\ written' = TRUE
    /\ lastSel' = IF v # alive[b] THEN Nil ELSE lastSel
    /\ sawDead' = [c \in Callers |->
                     IF InCall(c) /\ ~v THEN sawDead[c] \cup {b} ELSE sawDead[c]]
    /\ changed' = [c \in Callers |->
                     IF InCall(c) /\ v # alive[b] THEN TRUE ELSE changed[c]]
    /\ steady' = (steady /\ (calls > 0 => v))
    /\ selected' = IF steady' THEN selected ELSE [x \in Pool |-> 0]
    /\ watch' = IF v /\ ~alive[b] /\ (\A c \in Callers : ~InCall(c))
                THEN [b |-> b, misses |-> 0]
                ELSE IF v = alive[b] THEN watch ELSE NoWatch
    /\ ghChanged' = (ghChanged \/ (ghPc = "scan" /\ v # alive[b]))
    /\ ghSnaps' = IF ghPc = "scan" /\ AgreesWithScan({x \in Pool : alive'[x]})
                  THEN ghSnaps \cup {{x \in Pool : alive'[x]}}
                  ELSE ghSnaps
    /\ UNCHANGED <<selVars, calls, seq, issued, checked, adds, ghPc, ghIdx,
                   healthy, ghRet>>

\* SetAlive called from outside the monitor.
ManualSetAlive(b, v) == SetAlive(b, v) /\ UNCHANGED <<hcVars, muVars>>

\* SelectBackend is entered: attempts := 0; totalBackends := len(lb.backends)
Begin(c) ==
    /\ lbOk
    /\ pc[c] = "idle"
    /\ calls < MaxCalls
    /\ pc' = [pc EXCEPT ![c] = "add"]
    /\ attempts' = [attempts EXCEPT ![c] = 0]
    /\ ret' = [ret EXCEPT ![c] = NoRet]
    /\ calls' = calls + 1
    /\ sawDead' = [sawDead EXCEPT ![c] = {b \in Pool : ~alive[b]}]
    /\ changed' = [changed EXCEPT ![c] = FALSE]
    /\ seq' = (seq /\ \A e \in Callers \ {c} : ~InCall(e))
    /\ steady' = (steady /\ \A b \in Pool : alive[b])
    /\ selected' = IF steady' THEN selected ELSE [x \in Pool |-> 0]
    /\ watch' = IF \E e \in Callers \ {c} : InCall(e) THEN NoWatch ELSE watch
    /\ lastSel' = IF seq' THEN lastSel ELSE Nil
    /\ adds' = [adds EXCEPT ![c] = 0]
    /\ UNCHANGED <<alive, lbOk, lbErr, current, idx, lastWrite, written,
                   issued, checked, hcVars, ghVars, muVars>>

\* idx := lb.current.Add(1) - 1; idx = idx % uint64(totalBackends)
Add(c) ==
    /\ pc[c] = "add"
    /\ current' = AtomicAdd1(current)
    /\ idx' = [idx EXCEPT ![c] = IndexOf(current', totalBackends)]
    /\ pc' = [pc EXCEPT ![c] = "check"]
    /\ issued' = issued + 1
    /\ adds' = [adds EXCEPT ![c] = adds[c] + 1]
    /\ UNCHANGED <<alive, lbOk, lbErr, attempts, ret, calls, sawDead, changed,
                   seq, steady, selected, watch, lastWrite, written, lastSel,
                   checked,
                   hcVars, ghVars, muVars>>

\* Mutation of Result: the error is dropped.
ResultNoError(b, e) == [backend |-> b, err |-> ErrNil]

\* The pair a return statement of SelectBackend delivers:
\* return selectedBackend, nil / return nil, fmt.Errorf(...).
Result(b, e) == [backend |-> b, err |-> e]

\* The return statements of SelectBackend, with the history they leave.
\* The locals die with the call.
\* lastSel: what this call returns, kept for the next call as long as calls
\* have never overlapped and no flag changes value.
Return(c, b, e) ==
    /\ pc' = [pc EXCEPT ![c] = "idle"]
    /\ ret' = [ret EXCEPT ![c] = Result(b, e)]
    /\ attempts' = [attempts EXCEPT ![c] = 0]
    /\ idx' = [idx EXCEPT ![c] = 0]
    /\ sawDead' = [sawDead EXCEPT ![c] = {}]
    /\ changed' = [changed EXCEPT ![c] = FALSE]
    /\ selected' = IF b # Nil /\ steady
                   THEN [selected EXCEPT ![b] = selected[b] + 1]
                   ELSE selected
    /\ watch' = IF watch.b = Nil \/ watch.b = b THEN NoWatch
                ELSE [watch EXCEPT !.misses = watch.misses + 1]
    /\ lastSel' = IF seq THEN b ELSE Nil
    /\ adds' = [adds EXCEPT ![c] = 0]

\* What SelectBackend does with the value a that selectedBackend.IsAlive()
\* has returned: if a { return selectedBackend, nil }; attempts++; and,
\* when the loop condition fails, return nil, "all backends are offline".
Decide(c, a) ==
    /\ IF a
       THEN Return(c, idx[c], ErrNil)
       ELSE IF MoreAttempts(attempts[c] + 1, totalBackends)
            THEN /\ attempts' = [attempts EXCEPT ![c] = attempts[c] + 1]
                 /\ pc' = [pc EXCEPT ![c] = "add"]
                 /\ idx' = [idx EXCEPT ![c] = 0]
                 /\ UNCHANGED <<ret, sawDead, changed, selected, watch, lastSel,
                                adds>>
            ELSE Return(c, Nil, ErrOffline)
    /\ checked' = checked + 1
    /\ UNCHANGED <<alive, lbOk, lbErr, current, calls, seq, steady, lastWrite,
                   written, issued, hcVars, ghVars>>

\* selectedBackend := lb.backends[idx]; if selectedBackend.IsAlive() {
\* return selectedBackend, nil }; attempts++; and, when the loop condition
\* fails, return nil, "all backends are offline".  IsAlive is taken as the
\* one step in which it reads the flag; its b.mu.RLock() is spelled out in
\* SelIsAlive and SelRead below.
Check(c) ==
    /\ pc[c] = "check"
    /\ Decide(c, IsAlive(idx[c]))
    /\ UNCHANGED muVars

Next ==
    \/ \E c \in Callers : Begin(c)
    \/ \E c \in Callers : Add(c)
    \/ \E c \in Callers : Check(c)
    \/ \E b \in Pool, v \in BOOLEAN : ManualSetAlive(b, v)

Spec == Init /\ [][Next]_vars

\* The balancer after so many selection attempts that its cursor is within
\* three steps of its largest value.
InitWrap == \E n \in 1 .. MaxN, k \in WrapStarts : InitAt(n, MainInterval, k)

SpecWrap == InitWrap /\ [][Next]_vars

\* ======================================================================
\* LoadBalancer.GetHealthyBackends
\* ======================================================================

\* Mutation of Collect: the backend is put in front.
CollectFront(h, b) == <<b>> \o h

\* healthy = append(healthy, b)
Collect(h, b) == Append(h, b)

\* Mutation of GhFrame: the scan advances the cursor.
GhFrameAdvance ==
    /\ current' = AtomicAdd1(current)
    /\ UNCHANGED <<alive, lbOk, lbErr, pc, attempts, idx, ret>>

\* GetHealthyBackends writes neither lb.current nor a flag.
GhFrame == UNCHANGED <<alive, selVars>>

\* GetHealthyBackends is entered: var healthy []*backend.Backend.
\* ghSnaps starts as the set of alive backends of this moment, and keeps,
\* of the sets of alive backends that have existed during the call, those
\* that agree with what the call has read so far.
GhBegin ==
    /\ lbOk
    /\ ghPc # "scan"
    /\ ghPc' = "scan"
    /\ ghIdx' = 0
    /\ healthy' = <<>>
    /\ ghRet' = <<>>
    /\ ghChanged' = FALSE
    /\ ghSnaps' = {{x \in Pool : alive[x]}}
    /\ GhFrame
    /\ UNCHANGED <<histVars, hcVars, muVars>>

\* One iteration of for _, b := range lb.backends: if b.IsAlive() {
\* healthy = append(healthy, b) }.
GhScan ==
    /\ ghPc = "scan"
    /\ ghIdx < totalBackends
    /\ healthy' = IF IsAlive(ghIdx) THEN Collect(healthy, ghIdx) ELSE healthy
    /\ ghIdx' = ghIdx + 1
    /\ ghSnaps' = {S \in ghSnaps : (ghIdx \in S) <=> IsAlive(ghIdx)}
    /\ GhFrame
    /\ UNCHANGED <<histVars, hcVars, muVars, ghPc, ghRet, ghChanged>>

\* return healthy
GhReturn ==
    /\ ghPc = "scan"
    /\ ghIdx = totalBackends
    /\ ghRet' = healthy
    /\ ghPc' = "done"
    /\ ghIdx' = 0
    /\ healthy' = <<>>
    /\ ghChanged' = FALSE
    /\ ghSnaps' = {}
    /\ GhFrame
    /\ UNCHANGED <<histVars, hcVars, muVars>>

\* Beside GetHealthyBackends, one goroutine makes one call of SelectBackend.
GhCallers == {1}

NextGH ==
    \/ GhBegin
    \/ GhScan
    \/ GhReturn
    \/ \E b \in Pool, v \in BOOLEAN : ManualSetAlive(b, v)
    \/ \E c \in GhCallers : calls = 0 /\ Begin(c)
    \/ \E c \in GhCallers : Add(c)
    \/ \E c \in GhCallers : Check(c)

\* The sizes of the pool on which GetHealthyBackends is exercised.
GhPoolSizes == 0 .. 3

InitGH == \E n \in GhPoolSizes : InitPool(n)

SpecGH == InitGH /\ [][NextGH]_vars

\* ======================================================================
\* Backend.IsAlive and Backend.SetAlive at the level of b.mu
\* ======================================================================

\* sync.RWMutex.  muWriter[b] is the task that has got through the first
\* part of b.mu.Lock(): it holds the mutex that serialises the writers and
\* has announced itself to the readers, and it either waits for the
\* readers that hold b.mu to leave ("drain") or holds b.mu ("write").  A
\* task still waiting for the writers' mutex ("lock") has announced nothing.
\* muReaders[b] are the tasks that hold b.mu for reading.

\* b.mu.RLock() returns without waiting when no writer has announced
\* itself.
CanRLock(b) == muWriter[b] = 0

\* b.mu.Lock() returns without waiting when no task holds b.mu at all.
CanLock(b) == muWriter[b] = 0 /\ muReaders[b] = {}

\* Task t calls b.IsAlive() and arrives at b.mu.RLock().
MuCallIsAlive(t, b) ==
    /\ muPc[t] = "idle"
    /\ muPc' = [muPc EXCEPT ![t] = "rlock"]
    /\ muArg' = [muArg EXCEPT ![t] = [b |-> b, v |-> FALSE]]
    /\ UNCHANGED <<alive, selVars, histVars, hcVars, ghVars, muWriter,
                   muReaders, muRet>>

\* Task t calls b.SetAlive(v) and arrives at b.mu.Lock().
MuCallSetAlive(t, b, v) ==
    /\ muPc[t] = "idle"
    /\ muPc' = [muPc EXCEPT ![t] = "lock"]
    /\ muArg' = [muArg EXCEPT ![t] = [b |-> b, v |-> v]]
    /\ UNCHANGED <<alive, selVars, histVars, hcVars, ghVars, muWriter,
                   muReaders, muRet>>

\* IsAlive: b.mu.RLock() counts the reader in.  With no writer announced
\* it returns; otherwise the reader sleeps until that writer unlocks.
MuRLock(t) ==
    /\ muPc[t] = "rlock"
    /\ IF CanRLock(muArg[t].b)
       THEN /\ muReaders' = [muReaders EXCEPT ![muArg[t].b] = @ \cup {t}]
            /\ muPc' = [muPc EXCEPT ![t] = "read"]
       ELSE /\ muPc' = [muPc EXCEPT ![t] = "rwait"]
            /\ UNCHANGED muReaders
    /\ UNCHANGED <<alive, selVars, histVars, hcVars, ghVars, muWriter, muArg,
                   muRet>>

\* IsAlive: return b.alive, and the deferred b.mu.RUnlock().
MuRead(t) ==
    /\ muPc[t] = "read"
    /\ muRet' = [muRet EXCEPT ![t] = alive[muArg[t].b]]
    /\ muReaders' = [muReaders EXCEPT ![muArg[t].b] = @ \ {t}]
    /\ muPc' = [muPc EXCEPT ![t] = "idle"]
    /\ muArg' = [muArg EXCEPT ![t] = NoArg]
    /\ UNCHANGED <<alive, selVars, histVars, hcVars, ghVars, muWriter>>

\* SetAlive: b.mu.Lock() takes the writers' mutex, which is free when no
\* writer is announced, and announces the writer; it returns at once when
\* no reader holds b.mu, and otherwise waits for the readers to leave.
MuLock(t) ==
    /\ muPc[t] = "lock"
    /\ muWriter[muArg[t].b] = 0
    /\ muWriter' = [muWriter EXCEPT ![muArg[t].b] = t]
    /\ muPc' = [muPc EXCEPT ![t] = IF CanLock(muArg[t].b) THEN "write"
                                  ELSE "drain"]
    /\ UNCHANGED <<alive, selVars, histVars, hcVars, ghVars, muReaders, muArg,
                   muRet>>

\* SetAlive: the last reader has left and b.mu.Lock() returns.
MuDrained(t) ==
    /\ muPc[t] = "drain"
    /\ muReaders[muArg[t].b] = {}
    /\ muPc' = [muPc EXCEPT ![t] = "write"]
    /\ UNCHANGED <<alive, selVars, histVars, hcVars, ghVars, muWriter,
                   muReaders, muArg, muRet>>

\* The readers that sleep in b.mu.RLock().
Sleepers(b) == {r \in MuTasks : muPc[r] = "rwait" /\ muArg[r].b = b}

\* SetAlive: b.alive = alive, and the deferred b.mu.Unlock(), which lets in
\* the readers that sleep in RLock before it gives up the writers' mutex.
MuWrite(t) ==
    /\ muPc[t] = "write"
    /\ SetAlive(muArg[t].b, muArg[t].v)
    /\ muWriter' = [muWriter EXCEPT ![muArg[t].b] = 0]
    /\ muReaders' = [muReaders EXCEPT ![muArg[t].b] = Sleepers(muArg[t].b)]
    /\ muPc' = [r \in MuTasks |->
                  IF r = t THEN "idle"
                  ELSE IF r \in Sleepers(muArg[t].b) THEN "read"
                  ELSE muPc[r]]
    /\ muArg' = [muArg EXCEPT ![t] = NoArg]
    /\ UNCHANGED <<hcVars, muRet>>

NextMu ==
    \/ \E t \in MuTasks, b \in Pool : MuCallIsAlive(t, b)
    \/ \E t \in MuTasks, b \in Pool, v \in BOOLEAN : MuCallSetAlive(t, b, v)
    \/ \E t \in MuTasks : MuRLock(t)
    \/ \E t \in MuTasks : MuRead(t)
    \/ \E t \in MuTasks : MuLock(t)
    \/ \E t \in MuTasks : MuDrained(t)
    \/ \E t \in MuTasks : MuWrite(t)

SpecMu == Init /\ [][NextMu]_vars

\* ======================================================================
\* SelectBackend with its IsAlive at the level of b.mu, beside a goroutine
\* that calls SetAlive (a probe of the monitor, a test)
\* ======================================================================

\* The goroutines that call SetAlive while the callers select.
Writers == MuTasks \ Callers

\* SelectBackend: selectedBackend := lb.backends[idx], and the call of
\* selectedBackend.IsAlive() arrives at b.mu.RLock().
SelIsAlive(c) ==
    /\ pc[c] = "check"
    /\ MuCallIsAlive(c, idx[c])

\* SelectBackend: IsAlive returns b.alive under the read lock and gives the
\* lock back, and the call goes on with the value.
SelRead(c) ==
    /\ pc[c] = "check"
    /\ muPc[c] = "read"
    /\ Decide(c, IsAlive(idx[c]))
    /\ muRet' = [muRet EXCEPT ![c] = IsAlive(idx[c])]
    /\ muReaders' = [muReaders EXCEPT ![muArg[c].b] = @ \ {c}]
    /\ muPc' = [muPc EXCEPT ![c] = "idle"]
    /\ muArg' = [muArg EXCEPT ![c] = NoArg]
    /\ UNCHANGED muWriter

\* As many calls of SelectBackend are made as there are callers.
NextSelMu ==
    \/ \E c \in Callers : calls < Cardinality(Callers) /\ Begin(c)
    \/ \E c \in Callers : Add(c)
    \/ \E c \in Callers : SelIsAlive(c)
    \/ \E c \in Callers : MuRLock(c)
    \/ \E c \in Callers : SelRead(c)
    \/ \E t \in Writers, b \in Pool, v \in BOOLEAN : MuCallSetAlive(t, b, v)
    \/ \E t \in Writers : MuLock(t)
    \/ \E t \in Writers : MuDrained(t)
    \/ \E t \in Writers : MuWrite(t)

SpecSelMu == Init /\ [][NextSelMu]_vars

\* ======================================================================
\* healthcheck.HealthChecker, the version whose checkAllBackends joins its
\* probes with a sync.WaitGroup
\* ======================================================================

\* checkBackend's decision: err == nil and resp.StatusCode == http.StatusOK.
Verdict(res) == res = "200"

\* Mutation of WgWait: checkAllBackends returns while one probe is still
\* running.
WgWaitButOne(l) == wg[l] <= 1

\* Mutation of WgWait: checkAllBackends returns without waiting.
WgNoWait(l) == TRUE

\* wg.Wait() returns when the counter is 0.
WgWait(l) == wg[l] = 0

\* select { case <-hc.ctx.Done(): ...; case <-ticker.C: ... }: the cases
\* that are ready.  Go picks one of the ready cases at random.
ReadyDone(l) == cancelled
ReadyTick(l) == tick[l]

\* hc.Start(): go hc.healthCheckLoop().  The goroutine exists and has not
\* run yet.
Start(l) ==
    /\ loopPc[l] = "none"
    /\ \A k \in Loops : k < l => loopPc[k] # "none"
    /\ loopPc' = [loopPc EXCEPT ![l] = "spawned"]
    /\ UNCHANGED <<notHc, hcCfg, endpoint, cancelled, round, spawnIdx, wg,
                   tickerOn, tick, probes>>

\* Mutation of Stop: it cancels only once no probe is in flight.
StopAndJoin ==
    /\ probes = {}
    /\ cancelled' = TRUE
    /\ UNCHANGED <<notHc, hcCfg, endpoint, loopPc, round, spawnIdx, wg,
                   tickerOn, tick, probes>>

\* hc.Stop(): hc.cancel().  It returns at once.
Stop ==
    /\ cancelled' = TRUE
    /\ UNCHANGED <<notHc, hcCfg, endpoint, loopPc, round, spawnIdx, wg,
                   tickerOn, tick, probes>>

\* A call of checkAllBackends begins: var wg sync.WaitGroup, and the range
\* loop starts.
EnterRound(l) ==
    /\ round' = [round EXCEPT ![l] = round[l] + 1]
    /\ spawnIdx' = [spawnIdx EXCEPT ![l] = 0]
    /\ wg' = [wg EXCEPT ![l] = 0]
    /\ loopPc' = [loopPc EXCEPT ![l] = "round"]

\* Mutation of ImmediateRound: the loop goes to its select at once.
NoImmediateRound(l) ==
    /\ loopPc' = [loopPc EXCEPT ![l] = "select"]
    /\ UNCHANGED <<round, spawnIdx, wg>>

\* "Run health check immediately on start": hc.checkAllBackends(), before
\* the for/select.
ImmediateRound(l) == EnterRound(l)

\* healthCheckLoop starts to run: ticker := time.NewTicker(hc.interval),
\* then "Run health check immediately on start": hc.checkAllBackends().
LoopEnter(l) ==
    /\ loopPc[l] = "spawned"
    /\ tickerOn' = [tickerOn EXCEPT ![l] = TRUE]
    /\ ImmediateRound(l)
    /\ UNCHANGED <<notHc, hcCfg, endpoint, cancelled, tick, probes>>

\* Mutation of Spawn: the range loop passes over the backend that follows
\* the one it probes.
SpawnSkips(l) ==
    /\ loopPc[l] = "round"
    /\ spawnIdx[l] < totalBackends
    /\ wg' = [wg EXCEPT ![l] = wg[l] + 1]
    /\ probes' = probes \cup {[loop |-> l, round |-> round[l],
                                b |-> spawnIdx[l], at |-> "get",
                                v |-> FALSE, was |-> FALSE]}
    /\ spawnIdx' = [spawnIdx EXCEPT
                      ![l] = IF spawnIdx[l] + 2 <= totalBackends
                             THEN spawnIdx[l] + 2 ELSE spawnIdx[l] + 1]
    /\ UNCHANGED <<notHc, hcCfg, endpoint, cancelled, loopPc, round,
                   tickerOn, tick>>

\* One iteration of the range loop: wg.Add(1); go func(backend) {
\* defer wg.Done(); hc.checkBackend(backend) }(b).  The probe's client.Get
\* is under way.
Spawn(l) ==
    /\ loopPc[l] = "round"
    /\ spawnIdx[l] < totalBackends
    /\ wg' = [wg EXCEPT ![l] = wg[l] + 1]
    /\ probes' = probes \cup {[loop |-> l, round |-> round[l],
                                b |-> spawnIdx[l], at |-> "get",
                                v |-> FALSE, was |-> FALSE]}
    /\ spawnIdx' = [spawnIdx EXCEPT ![l] = spawnIdx[l] + 1]
    /\ UNCHANGED <<notHc, hcCfg, endpoint, cancelled, loopPc, round,
                   tickerOn, tick>>

\* Mutation of WaitAll: checkAllBackends returns as soon as its range loop
\* is over, with its probes still running.
WaitAllEarly(l) ==
    /\ loopPc[l] = "round"
    /\ spawnIdx[l] = totalBackends
    /\ loopPc' = [loopPc EXCEPT ![l] = "select"]
    /\ UNCHANGED <<notHc, hcCfg, endpoint, cancelled, round, spawnIdx, wg,
                   tickerOn, tick, probes>>

\* The range loop is over and wg.Wait() returns: checkAllBackends returns
\* to the for/select of healthCheckLoop.
WaitAll(l) ==
    /\ loopPc[l] = "round"
    /\ spawnIdx[l] = totalBackends
    /\ WgWait(l)
    /\ loopPc' = [loopPc EXCEPT ![l] = "select"]
    /\ UNCHANGED <<notHc, hcCfg, endpoint, cancelled, round, spawnIdx, wg,
                   tickerOn, tick, probes>>

\* case <-hc.ctx.Done(): return (and the deferred ticker.Stop()).
SelectDone(l) ==
    /\ loopPc[l] = "select"
    /\ ReadyDone(l)
    /\ loopPc' = [loopPc EXCEPT ![l] = "exit"]
    /\ tickerOn' = [tickerOn EXCEPT ![l] = FALSE]
    /\ tick' = [tick EXCEPT ![l] = FALSE]
    /\ UNCHANGED <<notHc, hcCfg, endpoint, cancelled, round, spawnIdx, wg,
                   probes>>

\* case <-ticker.C: hc.checkAllBackends().
SelectTick(l) ==
    /\ loopPc[l] = "select"
    /\ ReadyTick(l)
    /\ round[l] < MaxRounds
    /\ tick' = [tick EXCEPT ![l] = FALSE]
    /\ EnterRound(l)
    /\ UNCHANGED <<notHc, hcCfg, endpoint, cancelled, tickerOn, probes>>

\* The interval elapses: the ticker puts a tick in its channel, at any
\* moment and wherever the loop is; a tick that finds the channel full is
\* dropped.
Tick(l) ==
    /\ tickerOn[l]
    /\ ~tick[l]
    /\ tick' = [tick EXCEPT ![l] = TRUE]
    /\ UNCHANGED <<notHc, hcCfg, endpoint, cancelled, loopPc, round,
                   spawnIdx, wg, tickerOn, probes>>

\* checkBackend: client.Get comes back with res, one of the answers the
\* backend's server can give, and the probe reads
\* wasAlive := b.IsAlive() on the branch it takes.
ProbeRespond(p, res) ==
    /\ p.at = "get"
    /\ res \in endpoint[p.b]
    /\ probes' = (probes \ {p}) \cup
                    {[p EXCEPT !.at = "write", !.v = Verdict(res),
                               !.was = IsAlive(p.b)]}
    /\ UNCHANGED <<notHc, hcCfg, endpoint, cancelled, loopPc, round,
                   spawnIdx, wg, tickerOn, tick>>

\* checkBackend, after b.SetAlive(v): if wasAlive { log.Printf(...) } on the
\* two branches that write false, if !wasAlive { log.Printf(...) } on the
\* branch that writes true.  The line is printed when the value written
\* differs from the value IsAlive returned before the write.
Logs(p) == p.v # p.was

\* The probe p once it has written the flag: its locals are of no further
\* use.
Written(p) == [p EXCEPT !.at = "done", !.v = FALSE, !.was = FALSE]

\* Mutation of ProbeFinish: a probe that has failed ends its monitoring
\* loop.
ProbeFinishFatal(p) ==
    /\ p.at = "write"
    /\ SetAlive(p.b, p.v)
    /\ probes' = (probes \ {p}) \cup {Written(p)}
    /\ loopPc' = IF p.v THEN loopPc ELSE [loopPc EXCEPT ![p.loop] = "exit"]
    /\ UNCHANGED <<hcCfg, cancelled, round, spawnIdx, wg, tickerOn, tick,
                   endpoint, muVars>>

\* checkBackend: b.SetAlive(...) and the log line when the value differs
\* from wasAlive.  The flag is written; the goroutine has not yet returned
\* and the WaitGroup still counts it.
ProbeFinish(p) ==
    /\ p.at = "write"
    /\ SetAlive(p.b, p.v)
    /\ probes' = (probes \ {p}) \cup {Written(p)}
    /\ UNCHANGED <<hcCfg, cancelled, loopPc, round, spawnIdx, wg, tickerOn,
                   tick, endpoint, muVars>>

\* checkBackend returns (resp.Body.Close() is deferred) and the goroutine
\* ends with its deferred wg.Done().
ProbeDone(p) ==
    /\ p.at = "done"
    /\ probes' = probes \ {p}
    /\ wg' = [wg EXCEPT ![p.loop] = wg[p.loop] - 1]
    /\ UNCHANGED <<notHc, hcCfg, endpoint, cancelled, loopPc, round,
                   spawnIdx, tickerOn, tick>>

NextHC ==
    \/ \E l \in Loops : Start(l)
    \/ Stop
    \/ \E l \in Loops : LoopEnter(l)
    \/ \E l \in Loops : Spawn(l)
    \/ \E l \in Loops : WaitAll(l)
    \/ \E l \in Loops : SelectDone(l)
    \/ \E l \in Loops : SelectTick(l)
    \/ \E l \in Loops : Tick(l)
    \/ \E p \in probes, res \in Outcomes : ProbeRespond(p, res)
    \/ \E p \in probes : ProbeFinish(p)
    \/ \E p \in probes : ProbeDone(p)
    \/ \E b \in Pool, v \in BOOLEAN : ManualSetAlive(b, v)

InitHC == \E n \in HcPoolSizes : InitPool(n)

SpecHC == InitHC /\ [][NextHC]_vars

\* ======================================================================
\* healthcheck.HealthChecker of internal/healthcheck/healthchecker.go, whose
\* checkAllBackends starts its probes and returns.  NewHealthChecker, Start,
\* Stop and healthCheckLoop are the same as above; there is no WaitGroup
\* (wg stays 0).  Start is called once.  The flags are written by the
\* probes and by whoever else calls Backend.SetAlive on the pool, as
\* cmd/main.go does.
\* ======================================================================

\* The monitoring loop of the specifications in which Start is called once.
Monitor == 1

\* Mutation of FfReturns: checkAllBackends returns once the loop's probes
\* have ended.
FfJoins(l) == \A p \in probes : p.loop # l

\* checkAllBackends: after the range loop nothing holds the return back.
FfReturns(l) == TRUE

\* One iteration of the range loop: go hc.checkBackend(backend).  The
\* probe's client.Get is under way.
FfSpawn(l) ==
    /\ loopPc[l] = "round"
    /\ spawnIdx[l] < totalBackends
    /\ probes' = probes \cup {[loop |-> l, round |-> round[l],
                                b |-> spawnIdx[l], at |-> "get",
                                v |-> FALSE, was |-> FALSE, err |-> FALSE]}
    /\ spawnIdx' = [spawnIdx EXCEPT ![l] = spawnIdx[l] + 1]
    /\ UNCHANGED <<notHc, hcCfg, endpoint, cancelled, loopPc, round, wg,
                   tickerOn, tick>>

\* The range loop is over: checkAllBackends returns to the for/select of
\* healthCheckLoop.
FfReturn(l) ==
    /\ loopPc[l] = "round"
    /\ spawnIdx[l] = totalBackends
    /\ FfReturns(l)
    /\ loopPc' = [loopPc EXCEPT ![l] = "select"]
    /\ UNCHANGED <<notHc, hcCfg, endpoint, cancelled, round, spawnIdx, wg,
                   tickerOn, tick, probes>>

\* checkBackend: client.Get comes back with res.  On an error the probe
\* logs at once and reads nothing; otherwise it reads
\* wasAlive := b.IsAlive() on the branch it takes.
FfProbeRespond(p, res) ==
    /\ p.at = "get"
    /\ res \in endpoint[p.b]
    /\ probes' = (probes \ {p}) \cup
                    {[p EXCEPT !.at = "write", !.v = Verdict(res),
                               !.err = (res = "err"),
                               !.was = IF res = "err" THEN FALSE
                                       ELSE IsAlive(p.b)]}
    /\ UNCHANGED <<notHc, hcCfg, endpoint, cancelled, loopPc, round,
                   spawnIdx, wg, tickerOn, tick>>

\* checkBackend's log lines: on an error log.Printf("Health check failed")
\* whatever the flag is; on a response, if !wasAlive { log.Printf } with
\* SetAlive(true) and if wasAlive { log.Printf } with SetAlive(false).
FfLogs(p) == p.err \/ p.v # p.was

\* checkBackend: b.SetAlive(...), and the goroutine ends.
FfProbeFinish(p) ==
    /\ p.at = "write"
    /\ SetAlive(p.b, p.v)
    /\ probes' = probes \ {p}
    /\ UNCHANGED <<hcCfg, cancelled, loopPc, round, spawnIdx, wg, tickerOn,
                   tick, endpoint, muVars>>

NextFF ==
    \/ Start(Monitor)
    \/ Stop
    \/ LoopEnter(Monitor)
    \/ FfSpawn(Monitor)
    \/ FfReturn(Monitor)
    \/ SelectDone(Monitor)
    \/ SelectTick(Monitor)
    \/ Tick(Monitor)
    \/ \E p \in probes, res \in Outcomes : FfProbeRespond(p, res)
    \/ \E p \in probes : FfProbeFinish(p)
    \/ \E b \in Pool, v \in BOOLEAN : ManualSetAlive(b, v)

SpecFF == InitHC /\ [][NextFF]_vars

\* ======================================================================
\* The monitor started once and never stopped, under fair scheduling
\* ======================================================================

\* What the server behind a backend can settle into: it answers 200 for
\* ever, it answers with some status of the 2xx class for ever, or it
\* fails for ever (transport error, timeout, or status 500).
Settlements == {{"200"}, {"200", "204"}, {"err", "500"}}

\* The server behind backend b settles: from now on its /health gives
\* answers of S only.
Settle(b, S) ==
    /\ endpoint[b] = Outcomes
    /\ endpoint' = [endpoint EXCEPT ![b] = S]
    /\ UNCHANGED <<notHc, hcCfg, cancelled, loopPc, round, spawnIdx, wg,
                   tickerOn, tick, probes>>

\* case <-ticker.C: hc.checkAllBackends(), once the loop has begun
\* MaxRounds rounds: the loop goes on for ever, and round, which only
\* numbers the rounds for the record, stays at MaxRounds.
SelectTickOn(l) ==
    /\ loopPc[l] = "select"
    /\ ReadyTick(l)
    /\ round[l] = MaxRounds
    /\ tick' = [tick EXCEPT ![l] = FALSE]
    /\ spawnIdx' = [spawnIdx EXCEPT ![l] = 0]
    /\ wg' = [wg EXCEPT ![l] = 0]
    /\ loopPc' = [loopPc EXCEPT ![l] = "round"]
    /\ UNCHANGED <<notHc, hcCfg, endpoint, cancelled, round, tickerOn, probes>>

\* SetAlive by a task outside the monitor, which writes the flag of a
\* backend only as long as that backend's server has not settled.
OtherSetAlive(b, v) ==
    /\ endpoint[b] = Outcomes
    /\ ManualSetAlive(b, v)

\* The steps of the monitoring goroutine.
LoopStep ==
    \/ LoopEnter(Monitor)
    \/ Spawn(Monitor)
    \/ WaitAll(Monitor)
    \/ SelectTick(Monitor)
    \/ SelectTickOn(Monitor)

\* The steps of the checkBackend goroutines.
ProbeStep ==
    \/ \E p \in probes, res \in Outcomes : ProbeRespond(p, res)
    \/ \E p \in probes : ProbeFinish(p)
    \/ \E p \in probes : ProbeDone(p)

NextLive ==
    \/ Start(Monitor)
    \/ LoopStep
    \/ Tick(Monitor)
    \/ ProbeStep
    \/ \E b \in Pool, S \in Settlements : Settle(b, S)
    \/ \E b \in Pool, v \in BOOLEAN : OtherSetAlive(b, v)

\* The Go scheduler runs every runnable goroutine, the ticker fires every
\* interval, and client.Get returns within the client's Timeout.
FairLive ==
    /\ WF_vars(LoopStep)
    /\ WF_vars(Tick(Monitor))
    /\ WF_vars(ProbeStep)

InitLive == \E n \in HcPoolSizes, d \in Intervals : InitWith(n, d)

SpecLive == InitLive /\ [][NextLive]_vars /\ FairLive

\* ======================================================================
\* The monitor with its shutdown: one HealthChecker that is started and
\* stopped, in either order, and whose loop goes on round after round
\* until it takes the cancellation.
NextStop ==
    \/ Start(Monitor)
    \/ Stop
    \/ LoopStep
    \/ SelectDone(Monitor)
    \/ Tick(Monitor)
    \/ ProbeStep
    \/ \E b \in Pool, v \in BOOLEAN : ManualSetAlive(b, v)

\* The Go scheduler runs every runnable goroutine and client.Get returns
\* within the client's Timeout.  A select with several ready cases picks
\* one of them at random, so a case that is ready at select after select
\* is taken in the end: the cancellation case is strongly fair.
FairStop ==
    /\ WF_vars(LoopStep)
    /\ WF_vars(ProbeStep)
    /\ SF_vars(SelectDone(Monitor))

SpecStop == InitHC /\ [][NextStop]_vars /\ FairStop

\* ======================================================================
\* Properties of the selector, checked under Spec; those that speak of
\* every value of the cursor are checked under SpecWrap
\* ======================================================================

\* The step in which caller c's SelectBackend call returns.
Returns(c) == pc[c] = "check" /\ pc'[c] = "idle"

AliveSet == {b \in Pool : alive[b]}

\* Number of i in 0..k-1 with i mod N = b.
Turns(k, b) == Cardinality({i \in 0 .. k - 1 : i % totalBackends = b})

\* C1 (uniform rotation): on a fresh balancer whose backends are all alive
\* and stay alive, used by sequential calls only, the i-th call returns the
\* backend at position i mod N without error; hence after every number of
\* calls each backend b has been returned once per i < calls with
\* i mod N = b, which is exactly k times after k*N calls.
C1_UniformRotation ==
    (lbOk /\ seq /\ steady) =>
        /\ \A b \in Pool : selected[b] = Turns(done, b)
        /\ \A c \in Callers : ret[c].err # ErrOffline
        /\ \A k \in 0 .. MaxCalls :
              done = k * totalBackends => \A b \in Pool : selected[b] = k

\* Two full rotations over a pool of two.
C1_Witness ==
    /\ lbOk /\ seq /\ steady
    /\ totalBackends = 2
    /\ done = 4
    /\ selected = [b \in Pool |-> 2]

\* C2 (skip dead): whenever a call returns a backend, it is the backend the
\* call read in that very attempt, and the flag it read was true.
C2_SkipDead ==
    [][\A c \in Callers :
          (ret'[c] # ret[c] /\ ret'[c].backend # Nil) =>
              /\ pc[c] = "check"
              /\ ret'[c].backend = idx[c]
              /\ alive[idx[c]]]_vars

\* The first call found positions 0 and 1 dead and returned position 2.
C2_Witness ==
    /\ totalBackends = 3
    /\ calls = 1
    /\ current = 3
    /\ AliveSet = {2}
    /\ \E c \in Callers : ret[c] = [backend |-> 2, err |-> ErrNil]

\* C3 (no false "all offline"): a call returns the offline error only if
\* every backend of the pool was dead at some moment during that call.  (A
\* backend that stays alive throughout is never in sawDead, so this covers
\* the case of two backends that stay alive while a third is toggled.)
C3_NoFalseOffline ==
    [][\A c \in Callers :
          (Returns(c) /\ ret'[c].err = ErrOffline) => sawDead[c] = Pool]_vars

\* C4 (bounded worst case): a call that runs alone, during which no flag
\* changes and exactly one backend is alive, returns that backend after at
\* most N cursor increments, whatever the cursor was when it started.
C4_BoundedWorstCase ==
    [][\A c \in Callers :
          (Returns(c) /\ seq /\ ~changed[c] /\ Cardinality(AliveSet) = 1) =>
              /\ ret'[c].err = ErrNil
              /\ ret'[c].backend \in AliveSet
              /\ attempts[c] + 1 <= totalBackends]_vars

\* The cursor passed from its maximum to 0 during the call that returns:
\* of the attempts[c] + 1 values the call has obtained, the last of which
\* is current - 1, the first is in the upper half and the last is not.
Wrapped(c) == current >= 1 /\ current <= attempts[c]

\* C4 away from the wrap: the same statement for the calls during which the
\* cursor does not pass from its maximum to 0.
C4_NoWrap ==
    [][\A c \in Callers :
          (Returns(c) /\ seq /\ ~changed[c] /\ Cardinality(AliveSet) = 1
              /\ ~Wrapped(c)) =>
              /\ ret'[c].err = ErrNil
              /\ ret'[c].backend \in AliveSet
              /\ attempts[c] + 1 <= totalBackends]_vars

\* A SetAlive(true) is under way: a flag is about to become true.
Reviving == \E t \in MuTasks :
                muPc[t] \in {"lock", "drain", "write"} /\ muArg[t].v

\* C5 (all dead), checked under SpecSelMu: a call during which every flag
\* is false throughout returns nil with the offline error, in the step
\* that is its N-th liveness check, and it never waits: as long as every
\* flag has been false since the call began and no SetAlive(true) is under
\* way, the call is not asleep in b.mu.RLock().
C5_AllDeadNoWait ==
    /\ [][\A c \in Callers :
            (Returns(c) /\ ~changed[c] /\ AliveSet = {}) =>
                /\ ret'[c] = [backend |-> Nil, err |-> ErrOffline]
                /\ attempts[c] + 1 = totalBackends]_vars
    /\ [](\A c \in Callers :
            (InCall(c) /\ ~changed[c] /\ AliveSet = {} /\ ~Reviving) =>
                muPc[c] # "rwait")

\* C5, the outcome alone, with IsAlive taken as one step (checked under
\* Spec): a call during which every flag is false throughout returns nil
\* with the offline error, in the step that is its N-th liveness check.
C5_AllDead ==
    [][\A c \in Callers :
          (Returns(c) /\ ~changed[c] /\ AliveSet = {}) =>
              /\ ret'[c] = [backend |-> Nil, err |-> ErrOffline]
              /\ attempts[c] + 1 = totalBackends]_vars

\* The first call, on a pool of three that is all dead, has failed after
\* three increments.
C5_Witness ==
    /\ totalBackends = 3
    /\ calls = 1
    /\ current = 3
    /\ AliveSet = {}
    /\ \E c \in Callers : ret[c] = [backend |-> Nil, err |-> ErrOffline]

\* C6 (recovery visibility): an attempt that lands on a backend whose flag
\* is true returns that backend (so the first attempt that lands on a
\* revived backend returns it); and once a dead backend has been revived,
\* with sequential calls and no further change of a flag, fewer than N
\* calls return without selecting it.
C6_RecoveryVisible ==
    /\ [][\A c \in Callers :
            (pc[c] = "check" /\ pc'[c] # "check" /\ alive[idx[c]]) =>
                ret'[c] = [backend |-> idx[c], err |-> ErrNil]]_vars
    /\ [](watch.b # Nil => watch.misses < totalBackends)

\* C6, first half alone.
C6_NextAttemptReturns ==
    [][\A c \in Callers :
          (pc[c] = "check" /\ pc'[c] # "check" /\ alive[idx[c]]) =>
              ret'[c] = [backend |-> idx[c], err |-> ErrNil]]_vars

\* C7 (concurrency fairness): on a fresh balancer whose backends are all
\* alive throughout, once the calls started have all returned (in any
\* interleaving), none has failed, the per-backend counts add up to the
\* number of calls, and two counts differ by at most 1.
RECURSIVE SumSelected(_)
SumSelected(S) ==
    IF S = {} THEN 0
    ELSE LET b == CHOOSE x \in S : TRUE
         IN  selected[b] + SumSelected(S \ {b})

C7_ConcurrentFairness ==
    (lbOk /\ steady /\ \A c \in Callers : ~InCall(c)) =>
        /\ \A c \in Callers : ret[c].err # ErrOffline
        /\ SumSelected(Pool) = done
        /\ \A a, b \in Pool : selected[a] - selected[b] <= 1

\* Four calls on three backends, some of them overlapping, have returned.
C7_Witness ==
    /\ lbOk /\ steady /\ ~seq
    /\ totalBackends = 3
    /\ done = 4
    /\ \A c \in Callers : ~InCall(c)

\* C8 (construction): New refuses an empty list (error, no balancer) and
\* accepts a list of one; with one backend, a call during which that
\* backend is never dead returns it.
C8_Construction ==
    /\ [](/\ totalBackends = 0 => (~lbOk /\ lbErr = ErrNoBackends /\ calls = 0)
          /\ totalBackends = 1 => (lbOk /\ lbErr = ErrNil))
    /\ [][\A c \in Callers :
            (Returns(c) /\ totalBackends = 1 /\ sawDead[c] = {}) =>
                ret'[c] = [backend |-> 0, err |-> ErrNil]]_vars

\* Every call on a pool of one has returned the one backend.
C8_Witness ==
    /\ totalBackends = 1
    /\ lbOk
    /\ done = MaxCalls
    /\ selected[0] = MaxCalls


\* C13 (exactly one outcome): what a SelectBackend call has returned is
\* either a backend of the pool with no error, or nil with the error "all
\* backends are offline"; never a backend with an error, never nil with no
\* error.
C13_OneOutcome ==
    \A c \in Callers :
        \/ ret[c] = NoRet
        \/ ret[c].backend \in Pool /\ ret[c].err = ErrNil
        \/ ret[c].backend = Nil /\ ret[c].err = ErrOffline

\* C13 witness: of two finished calls on a pool of three, one returned a
\* backend and the other the error.
C13_Witness ==
    /\ totalBackends = 3
    /\ \A c \in Callers : ~InCall(c)
    /\ ret[1] = [backend |-> 2, err |-> ErrNil]
    /\ ret[2] = [backend |-> Nil, err |-> ErrOffline]

\* C23 (default liveness is false): as long as no SetAlive has completed,
\* every backend's flag is false, and every SelectBackend call that returns
\* before the first SetAlive returns (nil, "all backends are offline").
C23_DefaultOffline ==
    /\ [](~written => \A b \in Pool : ~IsAlive(b))
    /\ [][\A c \in Callers : (Returns(c) /\ ~written) =>
             ret'[c] = [backend |-> Nil, err |-> ErrOffline]]_vars

\* A call on a pool of freshly created backends has returned the error
\* and no flag has been written yet.
C23_Witness ==
    /\ ~written
    /\ totalBackends >= 2
    /\ \E c \in Callers : ret[c] = [backend |-> Nil, err |-> ErrOffline]

\* ======================================================================
\* Properties of the health checker, checked under SpecHC
\* ======================================================================

\* The probes of loop l that are in flight.
InFlight(l) == {p \in probes : p.loop = l}

\* C9 (monitor round isolation): every probe in flight belongs to the round
\* its loop is in, so probes of two different rounds of a loop are never in
\* flight together, and a loop begins a round only when none of its probes
\* is in flight, however long a probe takes and however many ticks elapse
\* meanwhile.
C9_RoundIsolation ==
    /\ [](\A p \in probes : p.round = round[p.loop])
    /\ [][\A l \in Loops : round'[l] # round[l] => InFlight(l) = {}]_vars

\* C9 witness: the second round of loop 1 has both its probes in flight,
\* one of them already answered, and the next tick is already pending.
C9_Witness ==
    /\ totalBackends = 2
    /\ round[1] = 2
    /\ tick[1]
    /\ Cardinality(InFlight(1)) = 2
    /\ \E p \in InFlight(1) : p.at = "write"

\* C10 (Stop issues no new round): once the context is cancelled, no step
\* begins a call of checkAllBackends.
C10_NoRoundAfterStop ==
    [][cancelled => \A l \in Loops : round'[l] = round[l]]_vars

\* C10, the part that holds: once the context is cancelled, a loop that is
\* at its select with no tick pending begins no round.
C10_NoRoundWithoutTick ==
    [][\A l \in Loops :
        (cancelled /\ loopPc[l] = "select" /\ ~tick[l]) =>
            round'[l] = round[l]]_vars

\* The 2xx success class among the outcomes of a probe.
Is2xx(res) == res \in {"200", "204"}

\* C11 (probe outcome mapping): a probe whose request comes back with res
\* carries the verdict "res is a 2xx status" into its write, and right after
\* the write the flag of its backend is that verdict.
C11_ProbeOutcome ==
    [][/\ \A p \in probes, res \in Outcomes :
            ProbeRespond(p, res) =>
                \E q \in probes' : /\ q.loop = p.loop /\ q.b = p.b
                                   /\ q.at = "write" /\ q.v = Is2xx(res)
       /\ \A p \in probes : ProbeFinish(p) => alive'[p.b] = p.v]_vars

\* C11, the part that holds: right after a probe's write the flag of its
\* backend is the verdict the probe carried.
C11_WriteIsVerdict ==
    [][\A p \in probes : ProbeFinish(p) => alive'[p.b] = p.v]_vars

\* C12 (immediate first round): the first step of a monitoring loop begins
\* round 1 with no tick in its channel; a loop that is at its select, where
\* it waits for the tick, or has left it has begun a round and started a
\* probe for every backend; and a tick leaves the channel only at the select.
C12_ImmediateFirstRound ==
    /\ [](\A l \in Loops :
            loopPc[l] \in {"select", "exit"} =>
                /\ round[l] >= 1
                /\ spawnIdx[l] = totalBackends)
    /\ [][\A l \in Loops :
            /\ (loopPc[l] = "spawned" /\ loopPc'[l] # "spawned") =>
                    /\ loopPc'[l] = "round"
                    /\ round'[l] = 1
                    /\ ~tick'[l]
            /\ (tick[l] /\ ~tick'[l]) =>
                    /\ loopPc[l] = "select"
                    /\ round[l] >= 1]_vars

\* C12 witness: loop 1 has finished its first round over two backends and
\* has taken its first tick for the second round.
C12_Witness ==
    /\ totalBackends = 2
    /\ loopPc[1] = "round"
    /\ round[1] = 2
    /\ spawnIdx[1] = 0
    /\ ~tick[1]

\* C17 (the liveness flag is a last-write-wins register): IsAlive gives
\* the value of the last completed SetAlive on that backend, whoever wrote
\* it (a caller from outside or a probe of the monitor), and false before
\* any write; a SetAlive(v) on a flag that the last write set to v leaves
\* every flag as it is.
C17_LastWriteWins ==
    /\ [](\A b \in Pool : IsAlive(b) = lastWrite[b])
    /\ [][lastWrite' = lastWrite => alive' = alive]_vars

\* C17 witness: with one loop started, a probe of backend 0 read the flag as
\* true and got status 200; a SetAlive(false) from outside has marked the
\* backend dead since; the probe's write, still to come, will overwrite it.
C17_Witness ==
    /\ totalBackends = 2
    /\ loopPc[2] = "none"
    /\ ~IsAlive(0)
    /\ \E p \in probes : p.b = 0 /\ p.at = "write" /\ p.v /\ p.was

\* C22 (Stop is idempotent and never blocks): Stop can complete in every
\* state, whatever the loops and the probes are doing, so also while a
\* round is mid-flight; and once the context is cancelled a further Stop
\* changes nothing at all.
C22_StopNeverBlocks ==
    /\ ENABLED Stop
    /\ cancelled => ~ENABLED (Stop /\ vars' # vars)

\* Stop has been called and a round still has probes in flight, some of
\* them waiting for their answer.
C22_Witness ==
    /\ cancelled
    /\ \E l \in Loops : /\ loopPc[l] = "round"
                        /\ \E p \in InFlight(l) : p.at = "get"

\* The step in which probe p does its SetAlive and ends.
Finishes(p) == p \in probes /\ p.at = "write" /\ p \notin probes'

\* C21 (transition-only logging): whenever a probe prints its line, its
\* write changes the flag of its backend, that is, the flag held the other
\* value just before the write; under every interleaving with the SetAlive
\* calls of other tasks and of other probes.
C21_LogOnlyOnChange ==
    [][\A p \in probes : (Finishes(p) /\ Logs(p)) => alive[p.b] # p.v]_vars

\* When the flag still holds at the write the value the probe has read,
\* the line is printed exactly when the write changes the flag.
C21_LogWhenUndisturbed ==
    [][\A p \in probes : (Finishes(p) /\ p.was = alive[p.b]) =>
          (Logs(p) <=> alive'[p.b] # alive[p.b])]_vars

\* C26 (probe failures are local): the step in which a probe gets its
\* answer, whatever the answer, writes no flag; the step in which it does
\* its SetAlive leaves the flag of every other backend as it was; neither
\* step (the steps after which the probe is no longer as it was) moves the
\* selection cursor or the position of any monitoring loop; and a loop ends
\* only when the context has been cancelled.
C26_ProbeIsLocal ==
    [][/\ probes' # probes =>
            \A p \in probes : p \notin probes' =>
               /\ current' = current /\ loopPc' = loopPc
               /\ p.at = "get" => alive' = alive
               /\ p.at = "write" =>
                     \A x \in Pool \ {p.b} : alive'[x] = alive[x]
       /\ loopPc' # loopPc =>
            \A l \in Loops :
               (loopPc[l] # "exit" /\ loopPc'[l] = "exit") => cancelled]_vars

\* A loop is in its second round, with a probe that has failed and is about
\* to write false, while the other backend is alive.
C26_Witness ==
    \E l \in Loops, p \in probes :
        /\ p.loop = l /\ round[l] = 2 /\ loopPc[l] = "round"
        /\ p.at = "write" /\ ~p.v
        /\ \E x \in Pool \ {p.b} : alive[x]

\* The monitoring loops that are running: created by Start and not yet
\* returned.
Running == {l \in Loops : loopPc[l] \in {"spawned", "round", "select"}}

\* C28 (single monitoring task): at most one monitoring loop of the
\* HealthChecker is running at any time, whatever Start and Stop calls have
\* been made.
C28_SingleLoop == Cardinality(Running) <= 1

\* As long as Start has been called once only, one loop at most is running.
C28_OneStartOneLoop == loopPc[2] = "none" => Cardinality(Running) <= 1

\* C29 (bounded probe fan-out): the probes of one monitoring loop that are
\* in flight are never more than the backends of the pool, so with Start
\* called once the probes in flight are at most M, whatever ticks arrive
\* while probes are slow.
C29_BoundedFanOut ==
    /\ \A l \in Loops : Cardinality(InFlight(l)) <= totalBackends
    /\ loopPc[2] = "none" => Cardinality(probes) <= totalBackends

\* One loop only, in its second round with a probe of every backend in
\* flight, and the next tick already waiting in the ticker's channel.
C29_Witness ==
    /\ loopPc[2] = "none" /\ round[1] = 2 /\ tick[1]
    /\ totalBackends = 2 /\ Cardinality(probes) = 2

\* The probe that the range loop of loop l starts next.
NextProbe(l) == [loop |-> l, round |-> round[l], b |-> spawnIdx[l],
                 at |-> "get", v |-> FALSE, was |-> FALSE]

\* C33 (one probe per backend per round): a call of checkAllBackends
\* begins with no backend probed, starts its probes one backend after the
\* other in pool order, each step adding exactly one new probe, for the
\* next backend, and returns only when every backend of the pool has had
\* its probe; and a probe is started whatever probes are still in flight,
\* so that the probes of a round run together.
C33_OneProbePerBackend ==
    /\ [](\A l \in Loops :
            (loopPc[l] = "round" /\ spawnIdx[l] < totalBackends) =>
                ENABLED Spawn(l))
    /\ [][\A l \in Loops :
            /\ round'[l] # round[l] => spawnIdx'[l] = 0
            /\ (spawnIdx'[l] # spawnIdx[l] /\ round'[l] = round[l]) =>
                  /\ spawnIdx'[l] = spawnIdx[l] + 1
                  /\ NextProbe(l) \notin probes
                  /\ probes' = probes \cup {NextProbe(l)}
            /\ (spawnIdx'[l] = spawnIdx[l]) =>
                  \A p \in probes' \ probes : p.loop # l \/ p.at # "get"
            /\ (loopPc[l] = "round" /\ loopPc'[l] # "round") =>
                  spawnIdx[l] = totalBackends]_vars

\* C33 witness: the second round of a loop over two backends has started
\* its two probes, one for each backend, and both requests are under way
\* at the same time.
C33_Witness ==
    /\ totalBackends = 2
    /\ round[1] = 2
    /\ spawnIdx[1] = 2
    /\ \A b \in Pool :
          [loop |-> 1, round |-> 2, b |-> b, at |-> "get",
           v |-> FALSE, was |-> FALSE] \in probes
    /\ Cardinality(InFlight(1)) = 2

\* Start has been called once: the HealthChecker has a single loop.
SingleStart == loopPc[1] # "none" /\ loopPc[2] = "none"

\* C36 (no stale probe result): for a HealthChecker started once, at most
\* one probe per backend is in flight; a probe writes its own outcome, and
\* writes it during the round that started it, so that probes write a flag
\* in the order of their rounds; the monitor changes a flag by nothing but
\* such a write; and a round ends with none of its probes left.  So a
\* flag that no other task writes holds, when the round ends, the outcome
\* of that round's probe, and no probe of an earlier round writes it later.
C36_NoStaleProbe ==
    /\ [](SingleStart => \A p, q \in probes : p.b = q.b => p = q)
    /\ [][SingleStart =>
            /\ \A p \in probes : Finishes(p) =>
                  /\ alive'[p.b] = p.v
                  /\ p.round = round[p.loop]
                  /\ loopPc[p.loop] = "round"
            /\ hcVars' # hcVars =>
                  \A b \in Pool : alive'[b] # alive[b] =>
                      \E p \in probes : p.b = b /\ Finishes(p)
            /\ (loopPc[1] = "round" /\ loopPc'[1] # "round") =>
                  probes = {}]_vars

\* C36 witness: in the second round of a single loop the probe of a
\* backend is about to write the opposite of what the flag holds, which the
\* first round has left, and it is the only probe of that backend.
C36_Witness ==
    /\ SingleStart
    /\ round[1] = 2
    /\ written
    /\ \E p \in probes :
          /\ p.at = "write"
          /\ p.round = 2
          /\ p.v # alive[p.b]
          /\ \A q \in probes : q.b = p.b => q = p

\* An attempt of caller c obtains its cursor value in this step.
Attempts(c) == pc[c] = "add" /\ pc'[c] = "check"

\* C19 (cursor uniqueness and monotonicity): the cursor is the number of
\* attempts made so far; the attempt that is made when k
\* attempts have been made obtains the value k and inspects position
\* k mod N, so until the counter wraps no two attempts obtain the same value
\* and a later attempt, of the same call or another, obtains a larger one;
\* and nothing but an attempt changes the cursor, each by exactly one.
C19_CursorOrder ==
    /\ [](current = issued)
    /\ [][\A c \in Callers :
            Attempts(c) =>
                /\ idx'[c] = CursorModulo(issued, totalBackends)
                /\ current' = current + 1]_vars
    /\ [][current' # current => \E c \in Callers : Attempts(c)]_vars

\* C19 witness: two concurrent calls on a pool of three, one in its second
\* attempt, hold the positions 1 and 2 of the values 1 and 2.
C19_Witness ==
    /\ totalBackends = 3
    /\ calls = 2
    /\ current = 3
    /\ pc[1] = "check" /\ idx[1] = 1 /\ attempts[1] = 1
    /\ pc[2] = "check" /\ idx[2] = 2 /\ attempts[2] = 0

\* The alive backend that follows position b in the cyclic pool order.
NextAlive(b) ==
    LET k == CHOOSE k \in 1 .. totalBackends :
                 /\ alive[(b + k) % totalBackends]
                 /\ \A j \in 1 .. k - 1 : ~alive[(b + j) % totalBackends]
    IN  (b + k) % totalBackends

\* C20 (fairness among the live subset): with sequential calls and flags
\* that keep their values, a call returns the alive backend that follows, in
\* the cyclic pool order, the backend the previous call returned; so the
\* calls cycle through the alive backends and any L consecutive calls
\* return each of the L alive backends once.
C20_LiveSubsetCycle ==
    [][\A c \in Callers :
        (Returns(c) /\ seq /\ ~changed[c] /\ lastSel # Nil /\ AliveSet # {}) =>
            /\ ret'[c].err = ErrNil
            /\ ret'[c].backend = NextAlive(lastSel)]_vars

\* C20, the part that holds: the same, for a call before whose return the
\* cursor has not passed from its largest value to 0 since the previous
\* call's attempt.
C20_NoWrap ==
    [][\A c \in Callers :
        (Returns(c) /\ seq /\ ~changed[c] /\ lastSel # Nil /\ AliveSet # {}
           /\ (current <= 0 \/ current > attempts[c] + 1)) =>
            /\ ret'[c].err = ErrNil
            /\ ret'[c].backend = NextAlive(lastSel)]_vars

\* C20: a state the part that holds is about: on a pool of three with
\* backend 1 dead, the second call has returned backend 2 after backend 0.
C20_NoWrapReached ==
    /\ totalBackends = 3
    /\ AliveSet = {0, 2}
    /\ seq
    /\ done = 2
    /\ current = 3
    /\ lastSel = 2

\* C27 (rotation survives cursor wraparound): with sequential calls and all
\* backends alive since the previous call returned, a call returns the
\* backend that follows, in the pool's cyclic order, the backend the
\* previous call returned, for every value of the cursor, the wrap from the
\* maximum to 0 included.
C27_RotationAtWrap ==
    [][\A c \in Callers :
          (Returns(c) /\ seq /\ lastSel # Nil /\ AliveSet = Pool) =>
             /\ ret'[c].err = ErrNil
             /\ ret'[c].backend = (lastSel + 1) % totalBackends]_vars

\* Every index computed from the cursor is a position of the pool.
C27_IndexInRange ==
    \A c \in Callers : pc[c] = "check" => idx[c] \in 0 .. totalBackends - 1

\* The rotation holds for every call whose cursor value is not the one
\* that follows the wrap.
C27_NoWrap ==
    [][\A c \in Callers :
          (Returns(c) /\ seq /\ lastSel # Nil /\ AliveSet = Pool
             /\ current # 1) =>
                ret'[c].backend = (lastSel + 1) % totalBackends]_vars

\* The position the latest Add of the cursor has given.
LastPosition == IndexOf(current, totalBackends)

\* C34 (a lone call scans the whole pool), checked under SpecWrap: when calls
\* have never overlapped, each further attempt of a call inspects the
\* position that follows, mod N, the position of its previous attempt.
C34_ConsecutivePositions ==
    [][\A c \in Callers :
          (pc[c] = "add" /\ pc'[c] = "check" /\ attempts[c] >= 1 /\ seq) =>
              idx'[c] = (LastPosition + 1) % totalBackends]_vars

\* C34 away from the wrap: the same statement for the attempts at which
\* the cursor does not pass from its maximum to 0.
C34_NoWrap ==
    [][\A c \in Callers :
          (pc[c] = "add" /\ pc'[c] = "check" /\ attempts[c] >= 1 /\ seq
             /\ current # 0) =>
              idx'[c] = (LastPosition + 1) % totalBackends]_vars

\* The case of C34_NoWrap happens: a lone call makes its third attempt,
\* over three backends.
C34_NoWrapReached ==
    \E c \in Callers :
        /\ seq
        /\ totalBackends = 3
        /\ pc[c] = "check"
        /\ attempts[c] = 2
        /\ current # 1

\* The calls that have advanced the cursor for an attempt and have not yet
\* made the liveness check of that attempt.
Pending == {c \in Callers : pc[c] = "check"}

\* C35 (cursor accounting) as stated, checked under Spec: in every
\* reachable state the cursor equals the number of liveness checks the
\* SelectBackend calls have performed so far.
C35_CursorIsChecks == current = checked

\* C35 with the attempts under way counted: the cursor equals the number
\* of liveness checks performed plus the number of calls that have advanced
\* the cursor and not yet made their check; only an
\* attempt moves the cursor, by one; and a call that returns has advanced
\* the cursor between 1 and N times, d + 1 times when it succeeds after d
\* dead backends, N times when it fails.
C35_CursorAccounting ==
    /\ [](current = checked + Cardinality(Pending))
    /\ [][current' # current =>
            \E c \in Callers :
                /\ current' = current + 1
                /\ adds'[c] = adds[c] + 1
                /\ \A e \in Callers \ {c} : adds'[e] = adds[e]]_vars
    /\ [][\A c \in Callers :
            Returns(c) =>
                /\ adds[c] \in 1 .. totalBackends
                /\ ret'[c].err = ErrNil => adds[c] = attempts[c] + 1
                /\ ret'[c].err # ErrNil => adds[c] = totalBackends]_vars

\* C35 witness: over three dead backends a first call has failed after
\* three checks, and a second call, after one more check, has advanced the
\* cursor a fifth time for a check it has not made yet.
C35_Witness ==
    /\ totalBackends = 3
    /\ seq
    /\ ret[1] = [backend |-> Nil, err |-> ErrOffline]
    /\ pc[1] = "idle"
    /\ pc[2] = "check"
    /\ adds[2] = 2
    /\ checked = 4
    /\ current = 5

\* ======================================================================
\* Properties of the health checker without join, checked under SpecFF
\* ======================================================================

\* C30 (fire-and-forget rounds): checkAllBackends can return as soon as its
\* range loop is over, whatever probes are in flight, and the loop can take
\* a waiting tick and begin the next round whatever probes are in flight;
\* the probes in flight are bounded only by the rounds begun, M for each.
C30_NoJoin ==
    /\ (loopPc[Monitor] = "round" /\ spawnIdx[Monitor] = totalBackends)
          => ENABLED FfReturn(Monitor)
    /\ (loopPc[Monitor] = "select" /\ tick[Monitor]
          /\ round[Monitor] < MaxRounds) => ENABLED SelectTick(Monitor)
    /\ Cardinality(probes) <= round[Monitor] * totalBackends

\* Probes of the first round are still running beside probes of the second
\* round, and there are more probes in flight than backends.
C30_Witness ==
    /\ \E p, q \in probes : p.round = 1 /\ q.round = 2
    /\ Cardinality(probes) > totalBackends

\* C31 (log on state change only, health checker without join): whenever
\* a probe prints a line, its write changes the flag of its backend; a
\* probe that finds the flag already at the value it writes prints nothing,
\* whatever the answer was.
C31_FfLogOnlyOnChange ==
    [][\A p \in probes : (Finishes(p) /\ FfLogs(p)) => alive[p.b] # p.v]_vars

\* For a probe that got a response (not an error), and whose backend's flag
\* still holds at the write the value the probe has read, the line is
\* printed exactly when the write changes the flag.
C31_FfLogOnResponse ==
    [][\A p \in probes : (Finishes(p) /\ ~p.err /\ p.was = alive[p.b]) =>
          (FfLogs(p) <=> alive'[p.b] # alive[p.b])]_vars

\* C33 for the health checker without join: its range loop too starts one
\* probe for each backend in pool order and returns when all are started.
C33_FfOneProbePerBackend ==
    [][/\ round'[Monitor] # round[Monitor] => spawnIdx'[Monitor] = 0
       /\ (spawnIdx'[Monitor] # spawnIdx[Monitor]
             /\ round'[Monitor] = round[Monitor]) =>
             /\ spawnIdx'[Monitor] = spawnIdx[Monitor] + 1
             /\ \E p \in probes' \ probes :
                   /\ p.b = spawnIdx[Monitor]
                   /\ p.round = round[Monitor]
                   /\ p.at = "get"
                   /\ probes' = probes \cup {p}
       /\ (loopPc[Monitor] = "round" /\ loopPc'[Monitor] # "round") =>
             spawnIdx[Monitor] = totalBackends]_vars

\* ======================================================================
\* Properties of the shutdown, checked under SpecStop

\* C32 (shutdown terminates the loop, with its bound): once Stop has been
\* called, a loop that is at its decision point leaves it by exiting, so
\* that the loop runs at most the round that was in flight and then exits;
\* it begins no further round from its select.
C32_ExitAtNextDecision ==
    [][(cancelled /\ loopPc[Monitor] = "select") =>
          loopPc'[Monitor] \in {"select", "exit"}]_vars

\* C32, the part that holds: with every probe finishing and a fair choice
\* at the select, a started loop whose context is cancelled exits in the
\* end.
C32_EventuallyExits ==
    (cancelled /\ loopPc[Monitor] # "none") ~> (loopPc[Monitor] = "exit")

\* C37 (a stopped monitor cannot be restarted): when Start is called after
\* Stop, the loop runs its immediate round and no other; from a state in
\* which the context is cancelled and the loop not yet started, the loop
\* never begins a second round.
C37_NoPeriodicRoundAfterRestart ==
    []((cancelled /\ loopPc[Monitor] = "none") => [](round[Monitor] <= 1))

\* C37, the part that holds: a loop started after Stop runs its immediate
\* round and exits in the end.
C37_RestartRunsAndExits ==
    (cancelled /\ loopPc[Monitor] = "spawned") ~>
        (loopPc[Monitor] = "exit" /\ round[Monitor] >= 1)

\* C37, the part that holds: a loop started after Stop that finds no tick
\* pending at its select begins no round there.
C37_NoTickNoRound ==
    [][(cancelled /\ loopPc[Monitor] = "select" /\ ~tick[Monitor]) =>
          round'[Monitor] = round[Monitor]]_vars

\* ======================================================================
\* Properties of the running monitor, checked under SpecLive
\* ======================================================================

\* The answers that are a success: a status of the 2xx class, as Is2xx.
Successes == {res \in Outcomes : Is2xx(res)}

\* C24 (automatic failure and recovery detection): once the monitor has
\* been started, a backend whose server has settled on answering
\* successfully has its flag true from some moment on, and a backend whose
\* server has settled on failing has its flag false from some moment on.
C24_Detects ==
    <>[](loopPc[Monitor] # "none" =>
           \A b \in Pool :
              /\ endpoint[b] # Outcomes /\ endpoint[b] \subseteq Successes
                    => alive[b]
              /\ endpoint[b] \cap Successes = {} => ~alive[b])

\* The same for a server that settles on status 200, the one success the
\* probe recognises, and for a server that settles on failing.
C24_DetectsStatus200 ==
    <>[](loopPc[Monitor] # "none" =>
           \A b \in Pool :
              /\ endpoint[b] = {"200"} => alive[b]
              /\ endpoint[b] \cap Successes = {} => ~alive[b])

\* C25 (probe timeout below interval): the Timeout of the client that
\* NewHealthChecker builds is strictly shorter than the interval it is
\* given.
C25_TimeoutBelowInterval == timeout < interval

\* NewHealthChecker leaves the interval as given and the Timeout at its
\* fixed value, for ever.
C25_FixedTimeout ==
    /\ timeout = ClientTimeout /\ interval \in Intervals
    /\ [][UNCHANGED hcCfg]_vars

\* ======================================================================
\* Properties of the lock-level model, checked under SpecMu
\* ======================================================================

\* C18 (lock-free hot path): a task inside IsAlive or SetAlive never has
\* to wait for another task: whenever it stands at RLock or Lock, the lock
\* operation can go through at once.
C18_NeverWaits ==
    \A t \in MuTasks :
        /\ muPc[t] = "rlock" => CanRLock(muArg[t].b)
        /\ muPc[t] = "lock" => CanLock(muArg[t].b)
        /\ muPc[t] \notin {"rwait", "drain"}

\* C18, what the lock does give: a writer holds b.mu alone, and a task that
\* holds b.mu gives it back in its next step, so no task waits for ever.
C18_MutualExclusion ==
    \A b \in Pool :
        /\ muWriter[b] # 0 => muPc[muWriter[b]] \in {"write", "drain"}
        /\ (muWriter[b] # 0 /\ muPc[muWriter[b]] = "write") =>
              muReaders[b] = {}
        /\ \A t \in muReaders[b] : muPc[t] = "read"

\* ======================================================================
\* Properties of GetHealthyBackends, checked under SpecGH
\* ======================================================================

\* The backends of S as a sequence in pool order.
InPoolOrder(S) ==
    LET InS(x) == x \in S
    IN  SelectSeq([i \in 1 .. totalBackends |-> i - 1], InS)

\* A step of a call of GetHealthyBackends, and the step that returns.
GhStep == <<ghPc, ghIdx>>' # <<ghPc, ghIdx>>
GhReturns == ghPc = "scan" /\ ghPc' = "done"

\* C14 (the selector has no side effect on health state): a step of a
\* SelectBackend call changes no flag and, of the balancer, nothing but the
\* cursor; a step of a GetHealthyBackends call changes no flag and leaves
\* the cursor as it is.
C14_NoSideEffects ==
    [][/\ (\E c \in Callers : pc'[c] # pc[c]) =>
            /\ alive' = alive
            /\ lbOk' = lbOk
            /\ lbErr' = lbErr
       /\ GhStep =>
            /\ alive' = alive
            /\ current' = current]_vars

\* C14 witness: on a pool of three with backend 0 dead, a SelectBackend call
\* has skipped it and returned backend 1, a GetHealthyBackends call has
\* returned, and the flags are as they were.
C14_Witness ==
    /\ totalBackends = 3
    /\ AliveSet = {1, 2}
    /\ current = 2
    /\ ret[1] = [backend |-> 1, err |-> ErrNil]
    /\ ghPc = "done"
    /\ ghRet = <<1, 2>>

\* C15 (result of GetHealthyBackends): a call during which no flag changed
\* value returns the backends whose flag is true, each once, in pool order;
\* the empty sequence when there is none.
C15_HealthyResult ==
    [][(GhReturns /\ ~ghChanged) => ghRet' = InPoolOrder(AliveSet)]_vars

\* C15 witness: on a pool of three with backend 1 dead, the call returned
\* backends 0 and 2 in this order.
C15_Witness ==
    /\ totalBackends = 3
    /\ AliveSet = {0, 2}
    /\ calls = 0
    /\ ghPc = "done"
    /\ ghRet = <<0, 2>>

\* C16 (GetHealthyBackends is a point-in-time snapshot): when a call
\* returns, the backends it returns are the set of alive backends of some
\* moment between its start and its return.
C16_Snapshot ==
    [][GhReturns => \E S \in ghSnaps : S = Collected]_vars

=============================================================================
